---- MODULE Spec2Model ----
(***************************************************************************)
(* Deadline evaluation engine of ProjectMonitor: the entity model          *)
(* (src/data/models.py), DeadlineChecker (check_project, batch_check,      *)
(* _calculate_severity) and the daily timer function main().               *)
(*                                                                         *)
(* Dates are day numbers (an integer per calendar day), so the difference  *)
(* of two dates is the .days of the timedelta.  Optional values are        *)
(* sequences: None is <<>> and a present value v is <<v>>.                 *)
(***************************************************************************)
EXTENDS Integers, Sequences, FiniteSets

VARIABLES
    today,             \* the calendar date date.today() returns
    projects,          \* the list of constructed Project entities
    ALERT_THRESHOLDS,  \* DeadlineChecker.ALERT_THRESHOLDS (class attribute)
    report,            \* the dict returned by the latest batch_check, or None
    lastConstruct,     \* the latest Project(...) call: its arguments and outcome
    notified,          \* the alert lists main() handed to the notifier, by day
    ran,               \* whether the timer function already ran today
    cycle              \* the frame of a batch_check in progress (its locals), or None

vars == <<today, projects, ALERT_THRESHOLDS, report, lastConstruct, notified, ran, cycle>>

\* ---------------------------------------------------------------- bounds
MaxDay == 62          \* the clock runs over the days 0..MaxDay
MaxMilestones == 2    \* milestones per project
MaxProjects == 2      \* projects per portfolio
MaxMidnights == 1     \* date changes while one batch_check is running

\* ---------------------------------------------------------------- values
None == << >>
Some(v) == <<v>>

ProjectStatus == {"planejamento", "em_andamento", "concluido", "paralisado", "cancelado"}
CONCLUIDO == "concluido"
MilestoneStatus == {"pendente", "concluido", "atrasado"}
Severities == {"CRITICO", "ALTO", "MEDIO", "BAIXO"}

\* ---------------------------------------------------------------- entity model
\* Milestone.is_overdue, reading the clock as t
is_overdue(m, t) ==
    IF m.actual_date # None \/ m.status = "concluido"
    THEN FALSE
    ELSE t > m.expected_date

\* Milestone.days_until, reading the clock as t
days_until(m, t) ==
    IF m.actual_date # None \/ m.status = "concluido"
    THEN None
    ELSE Some(m.expected_date - t)

\* Project.days_until_deadline, reading the clock as t
days_until_deadline(p, t) ==
    IF p.status = CONCLUIDO
    THEN None
    ELSE Some(p.expected_end_date - t)

\* is_at_risk with the deadline test written "< 15"
is_at_risk_Below15(p, t) ==
    IF days_until_deadline(p, t) # None /\ days_until_deadline(p, t)[1] < 15
    THEN TRUE
    ELSE \E i \in 1..Len(p.milestones) : is_overdue(p.milestones[i], t)

\* Project.is_at_risk, reading the clock as t
is_at_risk(p, t) ==
    IF days_until_deadline(p, t) # None /\ days_until_deadline(p, t)[1] <= 15
    THEN TRUE
    ELSE \E i \in 1..Len(p.milestones) : is_overdue(p.milestones[i], t)

\* the validator comparing the wrong way round
end_must_be_after_start_Reversed(raw) ==
    raw.expected_end_date > raw.start_date

\* Project.end_must_be_after_start: TRUE when the validator raises
end_must_be_after_start(raw) ==
    raw.expected_end_date < raw.start_date

\* Project(**raw): the entity, or the validation error
NewProject(raw) ==
    IF end_must_be_after_start(raw)
    THEN [ok |-> FALSE, error |-> "ValidationError"]
    ELSE [ok |-> TRUE, project |-> raw]

\* ---------------------------------------------------------------- engine
\* the banding with strict comparisons
_calculate_severity_Strict(days, alert_type) ==
    IF days < 7 THEN "CRITICO"
    ELSE IF days < 15 THEN "ALTO"
    ELSE IF days < 30 THEN "MEDIO"
    ELSE "BAIXO"

\* DeadlineChecker._calculate_severity (alert_type only selects an unused list)
_calculate_severity(days, alert_type) ==
    IF days <= 7 THEN "CRITICO"
    ELSE IF days <= 15 THEN "ALTO"
    ELSE IF days <= 30 THEN "MEDIO"
    ELSE "BAIXO"

\* the threshold walk matching "within N days" instead of the exact day
RECURSIVE FirstMatch_Within(_, _)
FirstMatch_Within(days, thresholds) ==
    IF thresholds = << >> THEN None
    ELSE IF days <= Head(thresholds) THEN Some(Head(thresholds))
    ELSE FirstMatch_Within(days, Tail(thresholds))

\* the loop "for threshold in ...: if days == threshold: ...; break":
\* the first threshold equal to days, or None
RECURSIVE FirstMatch(_, _)
FirstMatch(days, thresholds) ==
    IF thresholds = << >> THEN None
    ELSE IF days = Head(thresholds) THEN Some(Head(thresholds))
    ELSE FirstMatch(days, Tail(thresholds))

abs(n) == IF n < 0 THEN -n ELSE n

\* step 1 walking the milestone list of thresholds
ProjectDeadlineAlerts_MilestoneList(project, thresholds, t) ==
    IF project.status # CONCLUIDO /\ days_until_deadline(project, t) # None
    THEN LET days == days_until_deadline(project, t)[1] IN
         IF FirstMatch(days, thresholds["milestone"]) # None
         THEN << [type |-> "project_deadline",
                  target |-> <<project.name>>,
                  days |-> days,
                  severity |-> _calculate_severity(days, "project"),
                  message |-> <<"vence em", project.name, days, project.expected_end_date>>] >>
         ELSE << >>
    ELSE << >>

\* step 1 also alerting once the deadline is reached or missed
ProjectDeadlineAlerts_ReportsMissed(project, thresholds, t) ==
    IF project.status # CONCLUIDO /\ days_until_deadline(project, t) # None
    THEN LET days == days_until_deadline(project, t)[1] IN
         IF days <= 0 \/ FirstMatch(days, thresholds["project_deadline"]) # None
         THEN << [type |-> "project_deadline",
                  target |-> <<project.name>>,
                  days |-> days,
                  severity |-> _calculate_severity(days, "project"),
                  message |-> <<"vence em", project.name, days, project.expected_end_date>>] >>
         ELSE << >>
    ELSE << >>

\* step 1 of check_project: the project deadline
ProjectDeadlineAlerts(project, thresholds, t) ==
    IF project.status # CONCLUIDO /\ days_until_deadline(project, t) # None
    THEN LET days == days_until_deadline(project, t)[1] IN
         IF FirstMatch(days, thresholds["project_deadline"]) # None
         THEN << [type |-> "project_deadline",
                  target |-> <<project.name>>,
                  days |-> days,
                  severity |-> _calculate_severity(days, "project"),
                  message |-> <<"vence em", project.name, days, project.expected_end_date>>] >>
         ELSE << >>
    ELSE << >>

\* the milestone body reporting the signed day count of an overdue milestone
MilestoneAlerts_SignedDays(project, milestone, thresholds, t) ==
    IF milestone.status = "concluido" \/ milestone.actual_date # None
    THEN << >>
    ELSE LET days == days_until(milestone, t)[1] IN
         IF days < 0
         THEN << [type |-> "milestone_overdue",
                  target |-> <<project.name, milestone.title>>,
                  days |-> days,
                  severity |-> "CRITICO",
                  message |-> <<"MARCO ATRASADO", milestone.title, days, milestone.expected_date>>] >>
         ELSE IF FirstMatch(days, thresholds["milestone"]) # None
         THEN << [type |-> "milestone_approaching",
                  target |-> <<project.name, milestone.title>>,
                  days |-> days,
                  severity |-> _calculate_severity(days, "milestone"),
                  message |-> <<"Marco vence em", milestone.title, days, project.name>>] >>
         ELSE << >>

\* the body of the milestone loop of check_project, for one milestone
MilestoneAlerts(project, milestone, thresholds, t) ==
    IF milestone.status = "concluido" \/ milestone.actual_date # None
    THEN << >>
    ELSE IF days_until(milestone, t) = None
    THEN << >>
    ELSE LET days == days_until(milestone, t)[1] IN
         IF days < 0
         THEN << [type |-> "milestone_overdue",
                  target |-> <<project.name, milestone.title>>,
                  days |-> abs(days),
                  severity |-> "CRITICO",
                  message |-> <<"MARCO ATRASADO", milestone.title, abs(days), milestone.expected_date>>] >>
         ELSE IF FirstMatch(days, thresholds["milestone"]) # None
         THEN << [type |-> "milestone_approaching",
                  target |-> <<project.name, milestone.title>>,
                  days |-> days,
                  severity |-> _calculate_severity(days, "milestone"),
                  message |-> <<"Marco vence em", milestone.title, days, project.name>>] >>
         ELSE << >>

\* the milestone loop leaving at the first milestone that alerts
RECURSIVE MilestoneLoop_StopsAfterAlert(_, _, _, _)
MilestoneLoop_StopsAfterAlert(project, i, thresholds, t) ==
    IF i > Len(project.milestones) THEN << >>
    ELSE IF MilestoneAlerts(project, project.milestones[i], thresholds, t) # << >>
    THEN MilestoneAlerts(project, project.milestones[i], thresholds, t)
    ELSE MilestoneLoop_StopsAfterAlert(project, i + 1, thresholds, t)

\* step 2 of check_project: the milestones from index i on, in list order
RECURSIVE MilestoneLoop(_, _, _, _)
MilestoneLoop(project, i, thresholds, t) ==
    IF i > Len(project.milestones) THEN << >>
    ELSE MilestoneAlerts(project, project.milestones[i], thresholds, t)
         \o MilestoneLoop(project, i + 1, thresholds, t)

\* DeadlineChecker.check_project
check_project(project, thresholds, t) ==
    ProjectDeadlineAlerts(project, thresholds, t)
    \o MilestoneLoop(project, 1, thresholds, t)

\* the first loop counting a project only when it has alerts and is at risk
RECURSIVE CheckLoop_And(_, _, _, _, _)
CheckLoop_And(ps, i, acc, thresholds, t) ==
    IF i > Len(ps) THEN acc
    ELSE LET alerts == check_project(ps[i], thresholds, t) IN
         CheckLoop_And(ps, i + 1,
                   [all_alerts |-> acc.all_alerts \o alerts,
                    risk_count |-> IF alerts # << >> /\ is_at_risk(ps[i], t)
                                   THEN acc.risk_count + 1
                                   ELSE acc.risk_count],
                   thresholds, t)

\* the first loop of batch_check, from project i on: all_alerts and risk_count
RECURSIVE CheckLoop(_, _, _, _, _)
CheckLoop(ps, i, acc, thresholds, t) ==
    IF i > Len(ps) THEN acc
    ELSE LET alerts == check_project(ps[i], thresholds, t) IN
         CheckLoop(ps, i + 1,
                   [all_alerts |-> acc.all_alerts \o alerts,
                    risk_count |-> IF alerts # << >> \/ is_at_risk(ps[i], t)
                                   THEN acc.risk_count + 1
                                   ELSE acc.risk_count],
                   thresholds, t)

\* the second loop inserting at the front of the bucket
RECURSIVE GroupBySeverity_Prepend(_, _)
GroupBySeverity_Prepend(alerts, by_severity) ==
    IF alerts = << >> THEN by_severity
    ELSE GroupBySeverity_Prepend(Tail(alerts),
             [by_severity EXCEPT ![Head(alerts).severity] = <<Head(alerts)>> \o @])

\* the second loop of batch_check: by_severity[alert['severity']].append(alert)
RECURSIVE GroupBySeverity(_, _)
GroupBySeverity(alerts, by_severity) ==
    IF alerts = << >> THEN by_severity
    ELSE GroupBySeverity(Tail(alerts),
             [by_severity EXCEPT ![Head(alerts).severity] = Append(@, Head(alerts))])

\* DeadlineChecker.batch_check
batch_check(ps, thresholds, t) ==
    LET loop == CheckLoop(ps, 1, [all_alerts |-> << >>, risk_count |-> 0], thresholds, t)
    IN [total_projects |-> Len(ps),
        projects_at_risk |-> loop.risk_count,
        alerts_by_severity |->
            GroupBySeverity(loop.all_alerts, [s \in Severities |-> << >>]),
        all_alerts |-> loop.all_alerts,
        generated_at |-> t]

\* ---------------------------------------------------------------- inputs
\* the (status, actual_date) of the milestones the environment supplies
MilestoneStates ==
    { <<"pendente", None>>, <<"atrasado", None>>, <<"concluido", None>>,
      <<"pendente", Some(2)>> }
MilestoneDates == {5, 31}
MilestoneChoices == MilestoneDates \X MilestoneStates

\* a milestone list from a list of choices; ids and titles follow the position
MkMilestones(cs) ==
    [i \in 1..Len(cs) |->
        [id |-> i, title |-> i, expected_date |-> cs[i][1],
         actual_date |-> cs[i][2][2], status |-> cs[i][2][1]]]

SeqsUpTo(S, n) == UNION { [1..k -> S] : k \in 0..n }

MkProject(name, status, start, end, ms) ==
    [id |-> name, name |-> name, status |-> status, start_date |-> start,
     expected_end_date |-> end, milestones |-> ms]

\* the single project of the per-project runs
ProjectInputs ==
    { MkProject("P", st, 0, e, MkMilestones(cs)) :
        st \in {"em_andamento", "concluido", "paralisado"},
        e \in {10, 61},
        cs \in SeqsUpTo(MilestoneChoices, MaxMilestones) }

\* the constructor arguments of the portfolio runs, some of them invalid
RawProjects ==
    { MkProject(d[3], st, d[1], d[2], ms) :
        st \in {"em_andamento", "concluido"},
        d \in { <<0, 61, "A">>, <<0, 38, "B">>, <<5, 3, "X">> },
        ms \in { << >>, MkMilestones(<< <<31, <<"pendente", None>> >> >>) } }

\* ---------------------------------------------------------------- actions
ThresholdTable ==
    [milestone |-> <<30, 15, 7, 3>>, project_deadline |-> <<60, 30, 15, 7>>]

Init ==
    /\ today = 0
    /\ projects = << >>
    /\ ALERT_THRESHOLDS = ThresholdTable
    /\ report = None
    /\ lastConstruct = None
    /\ notified = << >>
    /\ ran = FALSE
    /\ cycle = None

\* per-project runs: one valid project is loaded
InitProject ==
    /\ today = 0
    /\ \E p \in ProjectInputs : NewProject(p).ok /\ projects = <<p>>
    /\ ALERT_THRESHOLDS = ThresholdTable
    /\ report = None
    /\ lastConstruct = None
    /\ notified = << >>
    /\ ran = FALSE
    /\ cycle = None

\* Project(**raw) while the portfolio is put together, before the first cycle
Construct(raw) ==
    /\ today = 0 /\ ~ran
    /\ Len(projects) < MaxProjects
    /\ lastConstruct' = Some([raw |-> raw, result |-> NewProject(raw)])
    /\ projects' = IF NewProject(raw).ok
                   THEN Append(projects, NewProject(raw).project)
                   ELSE projects
    /\ UNCHANGED <<today, ALERT_THRESHOLDS, report, notified, ran, cycle>>

\* main() over an engine that drops a threshold from the class table once it
\* has alerted on it
RECURSIVE WithoutValue(_, _)
WithoutValue(seq, v) ==
    IF seq = << >> THEN << >>
    ELSE IF Head(seq) = v THEN WithoutValue(Tail(seq), v)
    ELSE <<Head(seq)>> \o WithoutValue(Tail(seq), v)

Main_ConsumesThresholds ==
    /\ ~ran
    /\ ran' = TRUE
    /\ IF projects = << >>
       THEN UNCHANGED <<report, notified, ALERT_THRESHOLDS>>
       ELSE LET result == batch_check(projects, ALERT_THRESHOLDS, today) IN
            /\ report' = Some(result)
            /\ notified' = IF result.all_alerts # << >>
                           THEN Append(notified, [day |-> today, alerts |-> result.all_alerts])
                           ELSE notified
            /\ ALERT_THRESHOLDS' =
                   IF result.all_alerts # << >>
                   THEN [k \in DOMAIN ALERT_THRESHOLDS |->
                            WithoutValue(ALERT_THRESHOLDS[k], result.all_alerts[1].days)]
                   ELSE ALERT_THRESHOLDS
    /\ UNCHANGED <<today, projects, lastConstruct, cycle>>

\* main(): the daily timer function
Main ==
    /\ ~ran
    /\ ran' = TRUE
    /\ IF projects = << >>
       THEN UNCHANGED <<report, notified>>
       ELSE LET result == batch_check(projects, ALERT_THRESHOLDS, today) IN
            /\ report' = Some(result)
            /\ notified' = IF result.all_alerts # << >>
                           THEN Append(notified, [day |-> today, alerts |-> result.all_alerts])
                           ELSE notified
    /\ UNCHANGED <<today, projects, ALERT_THRESHOLDS, lastConstruct, cycle>>

\* midnight: the calendar date advances and the timer is armed again
Tick ==
    /\ ran
    /\ today < MaxDay
    /\ today' = today + 1
    /\ ran' = FALSE
    /\ UNCHANGED <<projects, ALERT_THRESHOLDS, report, lastConstruct, notified, cycle>>

Next ==
    \/ \E raw \in RawProjects : Construct(raw)
    \/ Main
    \/ Tick

Spec == Init /\ [][Next]_vars

NextProject ==
    \/ Main
    \/ Tick

SpecProject == InitProject /\ [][NextProject]_vars

\* ---------------------------------------------------------------- per-project claims
\* the project of a per-project run and the alerts check_project returned for
\* it today (batch_check over the one-project list hands them on unchanged)
TheProject == projects[1]
CheckedToday == ran /\ report # None /\ Len(projects) = 1
TodaysAlerts == report[1].all_alerts

OfType(alerts, type) == SelectSeq(alerts, LAMBDA a : a.type = type)
ForMilestone(alerts, p, m) == SelectSeq(alerts, LAMBDA a : a.target = <<p.name, m.title>>)
IsOpen(m) == m.status # "concluido" /\ m.actual_date = None

\* C1: a project whose status is done gets an empty alert list from
\* check_project, whatever its end date and its milestones.
C1_DoneProjectHasNoAlerts ==
    (CheckedToday /\ TheProject.status = CONCLUIDO) => TodaysAlerts = << >>

Banding(d) ==
    CASE d <= 7 -> "CRITICO"
      [] d > 7 /\ d <= 15 -> "ALTO"
      [] d > 15 /\ d <= 30 -> "MEDIO"
      [] OTHER -> "BAIXO"

\* C4: a project that is not done gets at most one project_deadline alert, and
\* one exactly when days_until_deadline is 60, 30, 15 or 7; it carries the day
\* count and the banded severity (7 critical, 15 high, 30 medium, 60 low).
C4_ProjectDeadlineAlert ==
    (CheckedToday /\ TheProject.status # CONCLUIDO) =>
        LET d == TheProject.expected_end_date - today
            pd == OfType(TodaysAlerts, "project_deadline")
        IN /\ Len(pd) <= 1
           /\ Len(pd) = 1 <=> d \in {60, 30, 15, 7}
           /\ Len(pd) = 1 =>
                  /\ pd[1].days = d
                  /\ pd[1].severity = Banding(d)
                  /\ pd[1].severity =
                         (CASE d = 7 -> "CRITICO" [] d = 15 -> "ALTO"
                            [] d = 30 -> "MEDIO" [] d = 60 -> "BAIXO")

C4_Witness ==
    /\ CheckedToday
    /\ TheProject.status # CONCLUIDO
    /\ TheProject.expected_end_date - today = 60
    /\ Len(OfType(TodaysAlerts, "project_deadline")) = 1
    /\ OfType(TodaysAlerts, "project_deadline")[1].severity = "BAIXO"

\* the risk rule of the claim, on the fields
RiskRule(p, t) ==
    \/ p.status # CONCLUIDO /\ p.expected_end_date - t <= 15
    \/ \E i \in 1..Len(p.milestones) :
           /\ p.milestones[i].status # "concluido"
           /\ p.milestones[i].actual_date = None
           /\ t > p.milestones[i].expected_date

\* C5: is_at_risk is true exactly when days_until_deadline is defined and
\* <= 15 or some milestone is overdue, whether or not an alert fired; with no
\* alert, batch_check counts the project exactly when the rule holds.
C5_AtRiskRule ==
    \A i \in 1..Len(projects) :
        /\ is_at_risk(projects[i], today) <=> RiskRule(projects[i], today)
        /\ \A k \in 1..Len(projects[i].milestones) :
               is_overdue(projects[i].milestones[k], today) <=>
                   (IsOpen(projects[i].milestones[k])
                    /\ today > projects[i].milestones[k].expected_date)
        /\ (CheckedToday /\ TodaysAlerts = << >>) =>
               (report[1].projects_at_risk = 1 <=> RiskRule(TheProject, today))

C5_Witness ==
    /\ CheckedToday
    /\ TodaysAlerts = << >>
    /\ TheProject.expected_end_date - today = 10
    /\ is_at_risk(TheProject, today)
    /\ report[1].projects_at_risk = 1

\* ---------------------------------------------------------------- portfolio claims
RECURSIVE Flatten(_)
Flatten(seqs) ==
    IF seqs = << >> THEN << >> ELSE Head(seqs) \o Flatten(Tail(seqs))

RECURSIVE SumLen(_, _)
SumLen(f, S) ==
    IF S = {} THEN 0
    ELSE LET s == CHOOSE x \in S : TRUE IN Len(f[s]) + SumLen(f, S \ {s})

\* the alert list of project i of the portfolio on the day of the report
AlertsOf(i, day) == check_project(projects[i], ALERT_THRESHOLDS, day)

\* C6: batch_check partitions all_alerts into the four severity buckets with
\* no loss and no duplication, each bucket in the order of all_alerts, and
\* all_alerts is the per-project alert lists concatenated in project order.
C6_SeverityPartition ==
    report # None =>
        LET r == report[1] IN
        /\ r.all_alerts = Flatten([i \in 1..Len(projects) |-> AlertsOf(i, r.generated_at)])
        /\ DOMAIN r.alerts_by_severity = Severities
        /\ \A k \in 1..Len(r.all_alerts) : r.all_alerts[k].severity \in Severities
        /\ \A s \in Severities :
               r.alerts_by_severity[s] =
                   SelectSeq(r.all_alerts, LAMBDA a : a.severity = s)
        /\ SumLen(r.alerts_by_severity, Severities) = Len(r.all_alerts)

C6_Witness ==
    /\ report # None
    /\ Len(projects) = 2
    /\ Len(report[1].all_alerts) = 3
    /\ report[1].all_alerts[1].severity = "CRITICO"
    /\ report[1].all_alerts[2].severity = "ALTO"
    /\ report[1].all_alerts[3].severity = "CRITICO"
    /\ report[1].all_alerts[1] # report[1].all_alerts[3]
    /\ report[1].alerts_by_severity["CRITICO"] =
           <<report[1].all_alerts[1], report[1].all_alerts[3]>>

\* the projects batch_check has to count on the day of the report
Counted(day) ==
    { i \in 1..Len(projects) : AlertsOf(i, day) # << >> \/ RiskRule(projects[i], day) }

\* C7: total_projects is the number of projects given, projects_at_risk the
\* number of projects with at least one alert or at risk, each counted once.
C7_RiskCount ==
    report # None =>
        LET r == report[1] IN
        /\ r.total_projects = Len(projects)
        /\ r.projects_at_risk = Cardinality(Counted(r.generated_at))
        /\ r.projects_at_risk <= r.total_projects

\* one project counted with no alert, the other with an alert and not at risk
C7_Witness ==
    /\ report # None /\ ran
    /\ Len(projects) = 2
    /\ report[1].projects_at_risk = 2
    /\ AlertsOf(1, today) = << >> /\ is_at_risk(projects[1], today)
    /\ AlertsOf(2, today) # << >> /\ ~is_at_risk(projects[2], today)

AlertTypes == {"project_deadline", "milestone_overdue", "milestone_approaching"}

\* C8: Project(...) with expected end before start fails with a validation
\* error and yields no project, and succeeds otherwise; hence every project
\* checked has expected_end_date >= start_date and no alert reports it.
C8_EndNotBeforeStart ==
    /\ [](\A i \in 1..Len(projects) :
             projects[i].expected_end_date >= projects[i].start_date)
    /\ [](report # None =>
             \A k \in 1..Len(report[1].all_alerts) :
                 report[1].all_alerts[k].type \in AlertTypes)
    /\ [][(projects' # projects \/ lastConstruct' # lastConstruct) =>
             LET c == lastConstruct'[1] IN
             IF c.raw.expected_end_date < c.raw.start_date
             THEN /\ ~c.result.ok
                  /\ c.result.error = "ValidationError"
                  /\ projects' = projects
             ELSE /\ c.result.ok
                  /\ c.result.project = c.raw
                  /\ projects' = Append(projects, c.raw)]_vars

C8_Witness ==
    /\ lastConstruct # None
    /\ lastConstruct[1].raw.expected_end_date < lastConstruct[1].raw.start_date
    /\ ~lastConstruct[1].result.ok
    /\ Len(projects) = 1

HasRunOn(d) == d >= 0 /\ (d < today \/ (d = today /\ ran))
RunDays == { d \in 0..today : HasRunOn(d) }

NotifiedDays == { notified[k].day : k \in 1..Len(notified) }

\* how many alerts of a type with a day count were sent over the whole run
RECURSIVE CountSent(_, _, _, _)
CountSent(k, type, target, days) ==
    IF k > Len(notified) THEN 0
    ELSE Len(SelectSeq(notified[k].alerts,
                 LAMBDA a : a.type = type /\ a.target = target /\ a.days = days))
         + CountSent(k + 1, type, target, days)

ProjectThresholds == {60, 30, 15, 7}
MilestoneThresholds == {30, 15, 7, 3}

\* one run per day: at most one notification per day, in day order
OncePerDay ==
    \A k \in 1..Len(notified) :
        /\ HasRunOn(notified[k].day)
        /\ k > 1 => notified[k - 1].day < notified[k].day

\* the threshold alerts among the alerts of day d are the ones of the claim:
\* one per item whose remaining days equal a threshold, with that day count
CrossingsOn(d, alerts) ==
    LET p == TheProject IN
    /\ Len(OfType(alerts, "project_deadline")) =
           (IF p.expected_end_date - d \in ProjectThresholds THEN 1 ELSE 0)
    /\ \A n \in 1..Len(alerts) :
           alerts[n].type = "project_deadline" => alerts[n].days = p.expected_end_date - d
    /\ \A i \in 1..Len(p.milestones) :
           LET mine == OfType(ForMilestone(alerts, p, p.milestones[i]),
                              "milestone_approaching")
           IN /\ Len(mine) =
                     (IF IsOpen(p.milestones[i])
                         /\ p.milestones[i].expected_date - d \in MilestoneThresholds
                      THEN 1 ELSE 0)
              /\ \A n \in 1..Len(mine) :
                     mine[n].days = p.milestones[i].expected_date - d

\* each threshold alerts exactly once, on the day the remaining days equal it
ThresholdCrossings ==
    LET p == TheProject IN
    /\ \A k \in 1..Len(notified) : CrossingsOn(notified[k].day, notified[k].alerts)
    /\ \A d \in RunDays \ NotifiedDays : CrossingsOn(d, << >>)
    /\ \A th \in ProjectThresholds :
           CountSent(1, "project_deadline", <<p.name>>, th) =
               (IF HasRunOn(p.expected_end_date - th) THEN 1 ELSE 0)
    /\ \A i \in 1..Len(p.milestones) : \A th \in MilestoneThresholds :
           CountSent(1, "milestone_approaching", <<p.name, p.milestones[i].title>>, th) =
               (IF IsOpen(p.milestones[i])
                   /\ HasRunOn(p.milestones[i].expected_date - th)
                THEN 1 ELSE 0)

\* the overdue alerts among the alerts of day d: one per open milestone
\* whose expected date is before d
OverdueOn(d, alerts) ==
    LET p == TheProject IN
    \A i \in 1..Len(p.milestones) :
        Len(OfType(ForMilestone(alerts, p, p.milestones[i]), "milestone_overdue")) =
            (IF IsOpen(p.milestones[i]) /\ d > p.milestones[i].expected_date
             THEN 1 ELSE 0)

\* an open milestone also alerts on every day after its expected date
OverdueEveryDay ==
    /\ \A k \in 1..Len(notified) : OverdueOn(notified[k].day, notified[k].alerts)
    /\ \A d \in RunDays \ NotifiedDays : OverdueOn(d, << >>)

\* no watched item alerts on a day other than a threshold crossing
OnlyOnCrossings ==
    LET p == TheProject IN
    \A k \in 1..Len(notified) : \A n \in 1..Len(notified[k].alerts) :
        LET a == notified[k].alerts[n] IN
        \/ a.type = "project_deadline"
           /\ p.expected_end_date - notified[k].day \in ProjectThresholds
        \/ a.type = "milestone_approaching"
           /\ \E i \in 1..Len(p.milestones) :
                  /\ a.target = <<p.name, p.milestones[i].title>>
                  /\ p.milestones[i].expected_date - notified[k].day \in MilestoneThresholds

\* the timer function has run on every day 0..MaxDay
RunOver == today = MaxDay /\ ran

\* C10 as stated: run once a day over an unchanged, not-done project, each
\* project threshold gives exactly one project_deadline alert and each
\* milestone threshold one milestone_approaching alert per open milestone, on
\* the day the remaining days equal it, and no watched item alerts on any
\* other day.
C10_BoundedAlertVolume ==
    TheProject.status # CONCLUIDO =>
        /\ CheckedToday => CrossingsOn(today, TodaysAlerts)
        /\ RunOver => (OncePerDay /\ ThresholdCrossings)
        /\ OnlyOnCrossings

\* C10 amended: the threshold alerts are as stated, and no project_deadline or
\* milestone_approaching alert is sent on any other day; an open milestone
\* additionally gets one milestone_overdue alert on every day after its
\* expected date.
C10_ThresholdAlertsOncePerCrossing ==
    TheProject.status # CONCLUIDO =>
        /\ CheckedToday =>
               (CrossingsOn(today, TodaysAlerts) /\ OverdueOn(today, TodaysAlerts))
        /\ RunOver => (OncePerDay /\ ThresholdCrossings /\ OverdueEveryDay)

\* the whole run is over: all four project thresholds and all four thresholds
\* of an open milestone were crossed, and the milestone went overdue
C10_Witness ==
    /\ RunOver
    /\ TheProject.status # CONCLUIDO
    /\ TheProject.expected_end_date = 61
    /\ Len(TheProject.milestones) = 1
    /\ IsOpen(TheProject.milestones[1])
    /\ TheProject.milestones[1].expected_date = 31
    /\ \A th \in ProjectThresholds :
           CountSent(1, "project_deadline", <<TheProject.name>>, th) = 1
    /\ \A th \in MilestoneThresholds :
           CountSent(1, "milestone_approaching", <<TheProject.name, 1>>, th) = 1
    /\ Len(notified) > 8

\* ---------------------------------------------------------------- alert list shape
\* the project with the expected date of milestone j changed to d
WithMilestoneDate(p, j, d) ==
    [p EXCEPT !.milestones[j].expected_date = d]

\* the dates another milestone is moved to: before, on and after a threshold
OtherDates == {today - 1, today + 3, today + 4}

\* C11: each milestone contributes zero or one alert independently of the
\* others; the project_deadline alert, if any, is first and the milestone
\* alerts follow in milestone order; at most 1 + (open milestones) alerts; a
\* change of one milestone's date never changes the alert of another one.
C11_IndependentOrderedAlerts ==
    CheckedToday =>
        LET p == TheProject
            n == Len(p.milestones)
            open == { i \in 1..n : IsOpen(p.milestones[i]) }
        IN /\ \A i \in 1..n : Len(ForMilestone(TodaysAlerts, p, p.milestones[i])) <= 1
           /\ \A i \in (1..n) \ open : ForMilestone(TodaysAlerts, p, p.milestones[i]) = << >>
           /\ \A k \in 1..Len(TodaysAlerts) :
                  /\ TodaysAlerts[k].type = "project_deadline" => k = 1
                  /\ TodaysAlerts[k].type # "project_deadline" =>
                         /\ Len(TodaysAlerts[k].target) = 2
                         /\ TodaysAlerts[k].target[2] \in open
                         /\ \A j \in 1..(k - 1) :
                                TodaysAlerts[j].type # "project_deadline" =>
                                    TodaysAlerts[j].target[2] < TodaysAlerts[k].target[2]
           /\ Len(TodaysAlerts) <= 1 + Cardinality(open)
           /\ \A i \in 1..n : \A j \in (1..n) \ {i} : \A d \in OtherDates :
                  ForMilestone(check_project(WithMilestoneDate(p, j, d), ALERT_THRESHOLDS, today),
                               p, p.milestones[i])
                      = ForMilestone(TodaysAlerts, p, p.milestones[i])

\* a deadline alert followed by the alerts of two open milestones, overdue by
\* different numbers of days
C11_Witness ==
    /\ CheckedToday
    /\ Len(TheProject.milestones) = 2
    /\ Len(TodaysAlerts) = 3
    /\ TodaysAlerts[1].type = "project_deadline"
    /\ TodaysAlerts[2].type = "milestone_overdue" /\ TodaysAlerts[2].target[2] = 1
    /\ TodaysAlerts[3].type = "milestone_overdue" /\ TodaysAlerts[3].target[2] = 2
    /\ TodaysAlerts[2].days > TodaysAlerts[3].days

\* ---------------------------------------------------------------- missed deadlines
\* milestone m alerts on day t: open and overdue, or open and on a threshold
MilestoneDue(m, t) ==
    /\ IsOpen(m)
    /\ \/ m.expected_date < t
       \/ m.expected_date - t \in MilestoneThresholds

\* C13: a not-done project whose expected end date is today or earlier gets
\* no project_deadline alert, on that day and on every later day; with no
\* overdue or threshold milestone its alert list is empty, and batch_check
\* still counts it through is_at_risk.  Every alert has a day count >= 1.
C13_MissedDeadlineIsSilent ==
    /\ CheckedToday =>
           /\ (TheProject.status # CONCLUIDO /\ TheProject.expected_end_date <= today) =>
                  /\ OfType(TodaysAlerts, "project_deadline") = << >>
                  /\ (\A i \in 1..Len(TheProject.milestones) :
                          ~MilestoneDue(TheProject.milestones[i], today))
                         => TodaysAlerts = << >>
                  /\ is_at_risk(TheProject, today)
                  /\ report[1].projects_at_risk = 1
           /\ \A k \in 1..Len(TodaysAlerts) : TodaysAlerts[k].days >= 1
    /\ (RunOver /\ Len(projects) = 1 /\ TheProject.status # CONCLUIDO) =>
           \A k \in 1..Len(notified) :
               /\ notified[k].day >= TheProject.expected_end_date =>
                      OfType(notified[k].alerts, "project_deadline") = << >>
               /\ \A n \in 1..Len(notified[k].alerts) : notified[k].alerts[n].days >= 1

\* the deadline was missed days ago, nothing alerts, the project is counted
C13_Witness ==
    /\ CheckedToday
    /\ TheProject.status # CONCLUIDO
    /\ TheProject.expected_end_date < today - 3
    /\ Len(TheProject.milestones) = 1
    /\ TodaysAlerts = << >>
    /\ report[1].projects_at_risk = 1

\* ---------------------------------------------------------------- a cycle, read by read
\* batch_check taken one clock read at a time: every derived property calls
\* date.today() itself, and the date may change between two of the calls.

\* the portfolios of these runs: the valid, non-empty lists of RawProjects
MidnightPortfolios ==
    { ps \in SeqsUpTo({ raw \in RawProjects : NewProject(raw).ok }, MaxProjects) :
        ps # << >> }

InitMidnight ==
    /\ today \in 0..MaxDay
    /\ projects \in MidnightPortfolios
    /\ ALERT_THRESHOLDS = ThresholdTable
    /\ report = None
    /\ lastConstruct = None
    /\ notified = << >>
    /\ ran = FALSE
    /\ cycle = None

Running(pc) == cycle # None /\ cycle[1].pc = pc

\* the frame after "all_alerts.extend(alerts)": on to the next project, or to
\* the grouping once the list is through
NextProjectFrame(c, counted) ==
    [c EXCEPT !.pc = IF c.i < Len(projects) THEN "deadline" ELSE "group",
              !.i = c.i + 1,
              !.k = 1,
              !.alerts = << >>,
              !.all_alerts = c.all_alerts \o c.alerts,
              !.risk_count = IF counted THEN c.risk_count + 1 ELSE c.risk_count]

\* main() up to the call of batch_check and its first two assignments
BeginCycle ==
    /\ ~ran /\ cycle = None
    /\ projects # << >>
    /\ cycle' = Some([pc |-> "deadline", i |-> 1, k |-> 1, alerts |-> << >>,
                      all_alerts |-> << >>, risk_count |-> 0, started |-> today])
    /\ UNCHANGED <<today, projects, ALERT_THRESHOLDS, report, lastConstruct, notified, ran>>

\* check_project, step 1: the read of days_until_deadline
StepDeadline ==
    /\ Running("deadline")
    /\ LET c == cycle[1]
           p == projects[c.i]
       IN cycle' = Some([c EXCEPT
              !.alerts = ProjectDeadlineAlerts(p, ALERT_THRESHOLDS, today),
              !.pc = IF p.milestones # << >> THEN "milestone" ELSE "risk",
              !.k = 1])
    /\ UNCHANGED <<today, projects, ALERT_THRESHOLDS, report, lastConstruct, notified, ran>>

\* check_project, step 2, one milestone: the read of days_until
StepMilestone ==
    /\ Running("milestone")
    /\ LET c == cycle[1]
           p == projects[c.i]
       IN cycle' = Some([c EXCEPT
              !.alerts = c.alerts \o MilestoneAlerts(p, p.milestones[c.k], ALERT_THRESHOLDS, today),
              !.pc = IF c.k < Len(p.milestones) THEN "milestone" ELSE "risk",
              !.k = IF c.k < Len(p.milestones) THEN c.k + 1 ELSE 1])
    /\ UNCHANGED <<today, projects, ALERT_THRESHOLDS, report, lastConstruct, notified, ran>>

\* "if alerts or project.is_at_risk": is_at_risk is evaluated only with no
\* alert, and then starts with its read of days_until_deadline
StepRisk ==
    /\ Running("risk")
    /\ LET c == cycle[1]
           p == projects[c.i]
           dud == days_until_deadline(p, today)
       IN cycle' = Some(
              IF c.alerts # << >> THEN NextProjectFrame(c, TRUE)
              ELSE IF dud # None /\ dud[1] <= 15 THEN NextProjectFrame(c, TRUE)
              ELSE IF p.milestones = << >> THEN NextProjectFrame(c, FALSE)
              ELSE [c EXCEPT !.pc = "overdue", !.k = 1])
    /\ UNCHANGED <<today, projects, ALERT_THRESHOLDS, report, lastConstruct, notified, ran>>

\* "any(m.is_overdue for m in self.milestones)", one milestone: its read
StepOverdue ==
    /\ Running("overdue")
    /\ LET c == cycle[1]
           p == projects[c.i]
       IN cycle' = Some(
              IF is_overdue(p.milestones[c.k], today) THEN NextProjectFrame(c, TRUE)
              ELSE IF c.k = Len(p.milestones) THEN NextProjectFrame(c, FALSE)
              ELSE [c EXCEPT !.k = c.k + 1])
    /\ UNCHANGED <<today, projects, ALERT_THRESHOLDS, report, lastConstruct, notified, ran>>

\* the end of the cycle stamping the report with the date the cycle began on
Finish_StampsStart ==
    /\ Running("group")
    /\ LET c == cycle[1]
           result == [total_projects |-> Len(projects),
                      projects_at_risk |-> c.risk_count,
                      alerts_by_severity |->
                          GroupBySeverity(c.all_alerts, [s \in Severities |-> << >>]),
                      all_alerts |-> c.all_alerts,
                      generated_at |-> c.started]
       IN /\ report' = Some(result)
          /\ notified' = IF result.all_alerts # << >>
                         THEN Append(notified, [day |-> today, alerts |-> result.all_alerts])
                         ELSE notified
          /\ cycle' = Some([c EXCEPT !.pc = "done"])
    /\ ran' = TRUE
    /\ UNCHANGED <<today, projects, ALERT_THRESHOLDS, lastConstruct>>

\* the grouping by severity, the returned dict with its read for
\* generated_at, and the rest of main()
Finish ==
    /\ Running("group")
    /\ LET c == cycle[1]
           result == [total_projects |-> Len(projects),
                      projects_at_risk |-> c.risk_count,
                      alerts_by_severity |->
                          GroupBySeverity(c.all_alerts, [s \in Severities |-> << >>]),
                      all_alerts |-> c.all_alerts,
                      generated_at |-> today]
       IN /\ report' = Some(result)
          /\ notified' = IF result.all_alerts # << >>
                         THEN Append(notified, [day |-> today, alerts |-> result.all_alerts])
                         ELSE notified
          /\ cycle' = Some([c EXCEPT !.pc = "done"])
    /\ ran' = TRUE
    /\ UNCHANGED <<today, projects, ALERT_THRESHOLDS, lastConstruct>>

\* the calendar date changes while the cycle is running
Midnight ==
    /\ cycle # None /\ cycle[1].pc # "done"
    /\ today - cycle[1].started < MaxMidnights
    /\ today' = today + 1
    /\ UNCHANGED <<projects, ALERT_THRESHOLDS, report, lastConstruct, notified, ran, cycle>>

NextMidnight ==
    \/ BeginCycle
    \/ StepDeadline
    \/ StepMilestone
    \/ StepRisk
    \/ StepOverdue
    \/ Finish
    \/ Midnight

SpecMidnight == InitMidnight /\ [][NextMidnight]_vars

\* ---------------------------------------------------------------- no as-of date
CycleDone == Running("done") /\ report # None

\* alert a is one check_project gives for some project on day d
AlertOfDay(a, d) ==
    \E i \in 1..Len(projects) :
        \E n \in 1..Len(AlertsOf(i, d)) : AlertsOf(i, d)[n] = a

\* C12: no as-of date is kept: every check of a cycle and generated_at use
\* the date of the moment they read the clock, a date between the cycle's
\* first and last day; when the date does not change during the cycle, all
\* checks agree on one today and the report is the one of that day.
C12_NoAsOfDate ==
    /\ cycle # None =>
           /\ cycle[1].started <= today
           /\ \A n \in 1..Len(cycle[1].alerts) :
                  \E d \in cycle[1].started..today : AlertOfDay(cycle[1].alerts[n], d)
    /\ CycleDone =>
           LET r == report[1]
               first == cycle[1].started
           IN /\ r.generated_at = today
              /\ \A n \in 1..Len(r.all_alerts) :
                     \E d \in first..today : AlertOfDay(r.all_alerts[n], d)
              /\ today = first => r = batch_check(projects, ALERT_THRESHOLDS, first)

\* a cycle that began on the day the deadline was 30 days away and ended a
\* day later: the deadline alert is of the first day, the overdue alert of
\* the same project of the second, and the report is the one of neither day
C12_Witness ==
    /\ CycleDone
    /\ Len(projects) = 1
    /\ today = cycle[1].started + 1
    /\ report[1].generated_at = today
    /\ Len(report[1].all_alerts) = 2
    /\ report[1].all_alerts[1].type = "project_deadline"
    /\ report[1].all_alerts[1].days = projects[1].expected_end_date - cycle[1].started
    /\ report[1].all_alerts[2].type = "milestone_overdue"
    /\ report[1].all_alerts[2].days = today - projects[1].milestones[1].expected_date
    /\ report[1].all_alerts # AlertsOf(1, cycle[1].started)
    /\ report[1].all_alerts # AlertsOf(1, today)

====
